---------------------------- MODULE Spec2Model ----------------------------
(***************************************************************************)
(* A model of the core of the ANUS agent framework:                        *)
(*   - ShortTermMemory   (anus/core/memory/short_term.py)                  *)
(*   - TaskPlanner       (anus/core/planning/task_planner.py)              *)
(*   - ReactAgent loop   (anus/core/agent/react_agent.py, tool_agent.py)   *)
(*   - HybridAgent       (anus/core/agent/hybrid_agent.py)                 *)
(*   - ToolCollection    (anus/tools/base/tool_collection.py)              *)
(*   - LongTermMemory    (anus/core/memory/long_term.py)                   *)
(* Each component has its own specification (MemSpec, PlanSpec, LoopSpec,  *)
(* HybridSpec, CollSpec, LongSpec, and DriveSpec for a caller driving one   *)
(* plan to its end); the variables of the other components stay at their   *)
(* initial values.                                                         *)
(***************************************************************************)
EXTENDS Integers, Sequences, FiniteSets, TLC

VARIABLES
    \* ---- ShortTermMemory ----
    capacity,        \* self.capacity
    ttl,             \* self.ttl
    now,             \* the time of the last call (what time.time() returned, if read)
    items,           \* self.items: sequence of <<identifier, item>> in dict order
    access_times,    \* self.access_times: identifier -> time
    creation_times,  \* self.creation_times: identifier -> time
    lru_queue,       \* self.lru_queue: the heap, as the set of its (time, identifier) entries
    used_ids,        \* identifiers uuid4 has already handed out
    lastOp,          \* the last ShortTermMemory call, its arguments and what it returned
    addRun,          \* identifiers returned by the adds made since the last other call or expiry
    calls,           \* number of ShortTermMemory calls made so far
    callers,         \* the calls in progress when two callers share the memory: where each one is
    \* ---- TaskPlanner ----
    plan,            \* the plan dictionary the caller holds
    planOp,          \* the last TaskPlanner call, its arguments and what it returned
    plan_calls,      \* number of TaskPlanner calls made so far
    \* ---- ReactAgent.execute ----
    max_iterations,    \* self.max_iterations
    predicate,         \* which _should_terminate the agent has: "default" or "custom"
    agent_status,      \* self.state["status"]
    current_iteration, \* self.current_iteration
    thoughts,          \* len(context["thoughts"])
    actions,           \* len(context["actions"])
    observations,      \* context["observations"]
    outcome,           \* what execute returned
    pc,                \* where execute is: idle, loop, thought, decide, act, check,
                       \* final, returned, raised (an exception left execute)
    tools,             \* the names registered in self.tools
    action_name,       \* the action name _decide_action returned
    lastAction,        \* the last _execute_action call and what it did
    \* ---- HybridAgent ----
    hybrid_mode,          \* self.mode
    complexity_threshold, \* self.complexity_threshold, in tenths
    specialized_agents,   \* the roles of self.specialized_agents, in dict order
    hybrid_status,        \* self.state["status"]
    lastExecute,          \* the last HybridAgent.execute call and what it ran
    \* ---- ToolCollection ----
    collection_tools,     \* the names of self.tools
    tool_classes,         \* the names of self.tool_classes
    lastInvoke,           \* the last execute_tool call and what it returned
    \* ---- LongTermMemory ----
    index_in_memory,      \* self.index_in_memory
    index,                \* self.index: identifier -> item
    disk,                 \* the item files of storage_path: identifier -> content
    lastLong              \* the last LongTermMemory call and what it returned

memVars == <<capacity, ttl, now, items, access_times, creation_times,
             lru_queue, used_ids, lastOp, addRun, calls, callers>>

planVars == <<plan, planOp, plan_calls>>

toolVars == <<tools, action_name, lastAction>>

loopVars == <<max_iterations, predicate, agent_status, current_iteration,
              thoughts, actions, observations, outcome, pc, toolVars>>

hybridVars == <<hybrid_mode, complexity_threshold, specialized_agents,
                hybrid_status, lastExecute>>

collVars == <<collection_tools, tool_classes, lastInvoke>>

longVars == <<index_in_memory, index, disk, lastLong>>

vars == <<memVars, planVars, loopVars, hybridVars, collVars, longVars>>

-----------------------------------------------------------------------------
(* Bounds of the model *)

MaxCapacity == 2
MaxTtl == 1
MaxTime == MaxTtl + 1
MaxCalls == 4
MaxSteps == 3
MaxPlanCalls == 4
MaxIds == 3
MaxLimit == 2
MaxIterations == 3
MaxKeywords == 4
MaxFunny == 1
MaxRetries == 2
MaxLongIds == 2

-----------------------------------------------------------------------------
(* ShortTermMemory *)

\* uuid4 strings, ordered as the strings compare
Ids == 1..MaxIds
NoId == 0

\* the items stored: dictionaries with one field "kind"
Payloads == {"p", "q"}
\* the items MemSpec stores
MemItems == {"p"}
\* search queries: {} (matches everything) or {"kind": k}
Queries == {"any"} \cup Payloads
\* the queries MemSpec searches with: {"kind": "p"} matches every stored item,
\* as {} does, {"kind": "q"} matches none
MemQueries == Payloads
\* the limits MemSpec searches with: zero, one and the largest
SearchLimits == {0, 1, MaxLimit}

Keys(its) == {its[i][1] : i \in DOMAIN its}

Restrict(f, S) == [x \in S |-> f[x]]

Store == [items |-> items, access_times |-> access_times,
          creation_times |-> creation_times, lru_queue |-> lru_queue]

\* delete(identifier): the entry stays in lru_queue
DeleteFrom(S, id) ==
    IF id \notin Keys(S.items) THEN S
    ELSE [S EXCEPT
            !.items = SelectSeq(S.items, LAMBDA e : e[1] # id),
            !.access_times = Restrict(S.access_times, DOMAIN S.access_times \ {id}),
            !.creation_times = Restrict(S.creation_times, DOMAIN S.creation_times \ {id})]

RECURSIVE DeleteAll(_, _)
DeleteAll(S, ids) ==
    IF ids = {} THEN S
    ELSE LET id == CHOOSE x \in ids : TRUE
         IN DeleteAll(DeleteFrom(S, id), ids \ {id})

\* mutant of Expired: age measured from the last access
ExpiredByAccess(S, id, t) == t - S.access_times[id] > ttl

\* current_time - creation_time > self.ttl
Expired(S, id, t) == t - S.creation_times[id] > ttl

ExpiredIds(S, t) == {id \in DOMAIN S.creation_times : Expired(S, id, t)}

\* _prune_expired
PruneExpired(S, t) == DeleteAll(S, ExpiredIds(S, t))

\* tuple comparison of heap entries (time, identifier)
EntryLeq(e, f) == e[1] < f[1] \/ (e[1] = f[1] /\ e[2] <= f[2])

HeapMin(q) == CHOOSE e \in q : \A f \in q : EntryLeq(e, f)

\* mutant of EvictLru: the entry is popped, the item it names stays
EvictLruKeepsItem(S) ==
    IF S.lru_queue = {} THEN [store |-> S, evicted |-> NoId]
    ELSE [store |-> [S EXCEPT !.lru_queue = S.lru_queue \ {HeapMin(S.lru_queue)}],
          evicted |-> NoId]

\* _evict_lru: pop entries until one names a stored item, delete that item
RECURSIVE EvictLru(_)
EvictLru(S) ==
    IF S.lru_queue = {} THEN [store |-> S, evicted |-> NoId]
    ELSE LET e == HeapMin(S.lru_queue)
             popped == [S EXCEPT !.lru_queue = S.lru_queue \ {e}]
         IN IF e[2] \notin Keys(popped.items) THEN EvictLru(popped)
            ELSE [store |-> DeleteFrom(popped, e[2]), evicted |-> e[2]]

SetStore(S) ==
    /\ items' = S.items
    /\ access_times' = S.access_times
    /\ creation_times' = S.creation_times
    /\ lru_queue' = S.lru_queue

\* the pruned identifiers whose last access (by add, get, search or update)
\* was no more than ttl before the clock value the call read
Fresh(pruned) == {id \in pruned : now' - access_times[id] <= ttl}

OpRecord(op, arg, found, hits, evicted, pruned) ==
    [op |-> op, arg |-> arg, found |-> found, hits |-> hits,
     evicted |-> evicted, pruned |-> pruned, fresh |-> Fresh(pruned)]

\* one more call is made
Called == calls < MaxCalls /\ calls' = calls + 1

\* time.time(): some value not before the last one read
Clock == now..MaxTime

\* add(item), with time.time() = t
Add(item, t) ==
    \E identifier \in Ids \ used_ids :
        LET pruned == PruneExpired(Store, t)
            gone == Keys(items) \ Keys(pruned.items)
            inserted == [pruned EXCEPT
                !.items = Append(pruned.items, <<identifier, item>>),
                !.access_times = [x \in DOMAIN pruned.access_times \cup {identifier} |->
                                    IF x = identifier THEN t ELSE pruned.access_times[x]],
                !.creation_times = [x \in DOMAIN pruned.creation_times \cup {identifier} |->
                                    IF x = identifier THEN t ELSE pruned.creation_times[x]],
                !.lru_queue = pruned.lru_queue \cup {<<t, identifier>>}]
            after == IF Len(inserted.items) > capacity
                     THEN EvictLru(inserted)
                     ELSE [store |-> inserted, evicted |-> NoId]
        IN /\ SetStore(after.store)
           /\ now' = t
           /\ used_ids' = used_ids \cup {identifier}
           /\ lastOp' = OpRecord("add", identifier, TRUE, <<>>, after.evicted, gone)
           /\ addRun' = IF gone = {} THEN Append(addRun, identifier) ELSE <<identifier>>
           /\ UNCHANGED <<capacity, ttl>>

\* get(identifier), with time.time() = t
Get(identifier, t) ==
    LET pruned == PruneExpired(Store, t)
        gone == Keys(items) \ Keys(pruned.items)
        present == identifier \in Keys(pruned.items)
        after == IF present
                 THEN [pruned EXCEPT !.access_times[identifier] = t]
                 ELSE pruned
    IN /\ SetStore(after)
       /\ now' = t
       /\ lastOp' = OpRecord("get", identifier, present, <<>>, NoId, gone)
       /\ addRun' = <<>>
       /\ UNCHANGED <<capacity, ttl, used_ids>>

\* all(key in item and item[key] == value for key, value in query.items())
Matches(query, item) == query = "any" \/ item = query

\* the loop of search: the identifiers appended to results, in dict order,
\* leaving the loop once len(results) >= limit
RECURSIVE SearchLoop(_, _, _, _)
SearchLoop(its, i, query, limit) ==
    IF i > Len(its) THEN <<>>
    ELSE IF Matches(query, its[i][2])
         THEN IF 1 >= limit THEN <<its[i][1]>>
              ELSE <<its[i][1]>> \o SearchLoop(its, i + 1, query, limit - 1)
         ELSE SearchLoop(its, i + 1, query, limit)

\* results.sort(key=created_at, reverse=True): stable, newest first
RECURSIVE InsertByCreated(_, _, _)
InsertByCreated(sorted, id, ct) ==
    IF sorted = <<>> THEN <<id>>
    ELSE IF ct[Head(sorted)] >= ct[id]
         THEN <<Head(sorted)>> \o InsertByCreated(Tail(sorted), id, ct)
         ELSE <<id>> \o sorted

RECURSIVE SortByCreated(_, _)
SortByCreated(ids, ct) ==
    IF ids = <<>> THEN <<>>
    ELSE InsertByCreated(SortByCreated(SubSeq(ids, 1, Len(ids) - 1), ct), ids[Len(ids)], ct)

SeqRange(s) == {s[i] : i \in DOMAIN s}

\* what a search call leaves in lastOp: its arguments and the identifiers of
\* the entries it returned, in the order returned
SearchRecord(query, limit, hits, pruned) ==
    [op |-> "search", arg |-> NoId, found |-> hits # <<>>, hits |-> hits,
     evicted |-> NoId, pruned |-> pruned, fresh |-> Fresh(pruned),
     query |-> query, limit |-> limit]

\* search(query, limit), with time.time() = t
Search(query, limit, t) ==
    LET pruned == PruneExpired(Store, t)
        gone == Keys(items) \ Keys(pruned.items)
        matched == SearchLoop(pruned.items, 1, query, limit)
        after == [pruned EXCEPT
                    !.access_times = [x \in DOMAIN pruned.access_times |->
                        IF x \in SeqRange(matched) THEN t ELSE pruned.access_times[x]]]
    IN /\ SetStore(after)
       /\ now' = t
       /\ lastOp' = SearchRecord(query, limit,
                                 SortByCreated(matched, pruned.creation_times), gone)
       /\ addRun' = <<>>
       /\ UNCHANGED <<capacity, ttl, used_ids>>

\* update(identifier, item), with time.time() = t
Update(identifier, item, t) ==
    LET pruned == PruneExpired(Store, t)
        gone == Keys(items) \ Keys(pruned.items)
        present == identifier \in Keys(pruned.items)
        after == IF present
                 THEN [pruned EXCEPT
                        !.items = [i \in DOMAIN pruned.items |->
                                     IF pruned.items[i][1] = identifier
                                     THEN <<identifier, item>> ELSE pruned.items[i]],
                        !.access_times[identifier] = t]
                 ELSE pruned
    IN /\ SetStore(after)
       /\ now' = t
       /\ lastOp' = OpRecord("update", identifier, present, <<>>, NoId, gone)
       /\ addRun' = <<>>
       /\ UNCHANGED <<capacity, ttl, used_ids>>

\* delete(identifier), called at time t: it reads no clock and prunes nothing
Delete(identifier, t) ==
    /\ SetStore(DeleteFrom(Store, identifier))
    /\ now' = t
    /\ lastOp' = OpRecord("delete", identifier, identifier \in Keys(items), <<>>, NoId, {})
    /\ addRun' = <<>>
    /\ UNCHANGED <<capacity, ttl, used_ids>>

\* clear()
Clear ==
    /\ items' = <<>>
    /\ access_times' = <<>>
    /\ creation_times' = <<>>
    /\ lru_queue' = {}
    /\ lastOp' = OpRecord("clear", NoId, TRUE, <<>>, NoId, {})
    /\ addRun' = <<>>
    /\ UNCHANGED <<capacity, ttl, now, used_ids>>

\* the two callers of a shared ShortTermMemory
Callers == {1, 2}

\* where a caller is in its call: the operation and its argument, the
\* statement it is about to run (pc), the identifier the running delete was
\* called with (target) and where that delete returns to (ret), the
\* identifiers _prune_expired has still to delete (expired) and the clock
\* value the call holds (t)
CallRecord(op, arg, position) ==
    [op |-> op, arg |-> arg, pc |-> position, target |-> arg, ret |-> "done",
     expired |-> {}, t |-> 0]

\* no call in progress
NoCallers == [c \in Callers |-> CallRecord("none", NoId, "done")]

\* utilization as the fraction len(self.items) / self.capacity, 0 for a
\* capacity of 0
Fraction(num, den) == IF den > 0 THEN [num |-> num, den |-> den] ELSE [num |-> 0, den |-> 1]

\* mutant of GetStats: the heap entries are counted, not the items
GetStatsCountsQueue(S) ==
    [capacity |-> capacity, ttl |-> ttl, current_size |-> Cardinality(S.lru_queue),
     utilization |-> Fraction(Cardinality(S.lru_queue), capacity)]

\* get_stats
GetStats(S) ==
    [capacity |-> capacity, ttl |-> ttl, current_size |-> Len(S.items),
     utilization |-> Fraction(Len(S.items), capacity)]

\* ShortTermMemory(capacity, ttl)
MemInit ==
    /\ capacity \in 1..MaxCapacity
    /\ ttl = MaxTtl
    /\ now = 0
    /\ items = <<>>
    /\ access_times = <<>>
    /\ creation_times = <<>>
    /\ lru_queue = {}
    /\ used_ids = {}
    /\ lastOp = [op |-> "init", arg |-> NoId, found |-> FALSE, hits |-> <<>>,
                 evicted |-> NoId, pruned |-> {}, fresh |-> {}]
    /\ addRun = <<>>
    /\ calls = 0
    /\ callers = NoCallers

\* the identifiers the calls are made with: those handed out so far and one
\* that was never handed out (any other unknown identifier behaves like it)
ProbeIds ==
    LET unused == Ids \ used_ids
    IN used_ids \cup (IF unused = {} THEN {}
                      ELSE {CHOOSE id \in unused : \A o \in unused : id <= o})

MemNext ==
    \/ \E item \in MemItems, t \in Clock : Called /\ Add(item, t) /\ UNCHANGED <<callers, planVars, loopVars, hybridVars, collVars, longVars>>
    \/ \E id \in ProbeIds, t \in Clock : Called /\ Get(id, t) /\ UNCHANGED <<callers, planVars, loopVars, hybridVars, collVars, longVars>>
    \/ \E q \in MemQueries, limit \in SearchLimits, t \in Clock :
            Called /\ Search(q, limit, t) /\ UNCHANGED <<callers, planVars, loopVars, hybridVars, collVars, longVars>>
    \/ \E id \in ProbeIds, item \in MemItems, t \in Clock :
            Called /\ Update(id, item, t) /\ UNCHANGED <<callers, planVars, loopVars, hybridVars, collVars, longVars>>
    \/ \E id \in ProbeIds, t \in Clock : Called /\ Delete(id, t) /\ UNCHANGED <<callers, planVars, loopVars, hybridVars, collVars, longVars>>
    \/ Called /\ Clear /\ UNCHANGED <<callers, planVars, loopVars, hybridVars, collVars, longVars>>

\* a ShortTermMemory nobody uses
MemIdle ==
    /\ capacity = 1
    /\ ttl = 1
    /\ now = 0
    /\ items = <<>>
    /\ access_times = <<>>
    /\ creation_times = <<>>
    /\ lru_queue = {}
    /\ used_ids = {}
    /\ lastOp = [op |-> "init", arg |-> NoId, found |-> FALSE, hits |-> <<>>,
                 evicted |-> NoId, pruned |-> {}, fresh |-> {}]
    /\ addRun = <<>>
    /\ calls = 0
    /\ callers = NoCallers



\* ---- two callers sharing one ShortTermMemory ----
\* The class takes no lock, so the statements of two calls interleave. Each
\* action below is one statement (or one dictionary operation) of a call;
\* the scan of _prune_expired over creation_times is taken in one step.

\* the operations the two callers run
RaceOps == {"get", "update", "delete", "add"}

\* identifiers: those of a full store and one for each caller's add
RaceIds == 1 .. MaxCapacity + 2

\* del self.items[identifier]
ItemsDel(its, id) == SelectSeq(its, LAMBDA e : e[1] # id)

\* self.items[identifier] = item: in place, or a new key at the end
ItemsSet(its, id, item) ==
    IF id \in Keys(its)
    THEN [i \in DOMAIN its |-> IF its[i][1] = id THEN <<id, item>> ELSE its[i]]
    ELSE Append(its, <<id, item>>)

\* del d[identifier] on access_times or creation_times
MapDel(f, id) == Restrict(f, DOMAIN f \ {id})

\* d[identifier] = v on access_times or creation_times
MapSet(f, id, v) == [x \in DOMAIN f \cup {id} |-> IF x = id THEN v ELSE f[x]]

At(c, position) == callers[c].pc = position

Move(c, rec) == callers' = [callers EXCEPT ![c] = rec]

\* a KeyError leaves the call
KeyError(c) == Move(c, [callers[c] EXCEPT !.pc = "raised"])

\* the first statement of an operation: delete does not prune
EntryPoint(op) == IF op = "delete" THEN "delete_check" ELSE "prune_scan"

\* the statement after self._prune_expired()
AfterPrune(op) ==
    CASE op = "get" -> "get_check"
      [] op = "update" -> "update_check"
      [] op = "add" -> "add_items"
      [] OTHER -> "done"

\* what no statement of a call changes
RaceFrame ==
    UNCHANGED <<capacity, ttl, lastOp, addRun, calls,
                planVars, loopVars, hybridVars, collVars, longVars>>

\* _prune_expired: current_time = time.time() and the loop collecting the
\* expired identifiers
PruneScan(c) ==
    /\ At(c, "prune_scan")
    /\ \E t \in Clock :
          /\ now' = t
          /\ Move(c, [callers[c] EXCEPT !.pc = "prune_next", !.t = t,
                                        !.expired = ExpiredIds(Store, t)])
    /\ UNCHANGED <<items, access_times, creation_times, lru_queue, used_ids>>

\* _prune_expired: for identifier in expired_identifiers: self.delete(identifier)
PruneNext(c) ==
    /\ At(c, "prune_next")
    /\ LET me == callers[c]
       IN IF me.expired = {}
          THEN Move(c, [me EXCEPT !.pc = AfterPrune(me.op)])
          ELSE LET id == CHOOSE x \in me.expired : \A y \in me.expired : x <= y
               IN Move(c, [me EXCEPT !.pc = "delete_check", !.target = id,
                                     !.ret = "prune_next",
                                     !.expired = me.expired \ {id}])
    /\ UNCHANGED <<now, items, access_times, creation_times, lru_queue, used_ids>>

\* delete: if identifier not in self.items: return False
DeleteCheck(c) ==
    /\ At(c, "delete_check")
    /\ LET me == callers[c]
       IN IF me.target \in Keys(items)
          THEN Move(c, [me EXCEPT !.pc = "delete_items"])
          ELSE Move(c, [me EXCEPT !.pc = me.ret])
    /\ UNCHANGED <<now, items, access_times, creation_times, lru_queue, used_ids>>

\* delete: del self.items[identifier]
DeleteItems(c) ==
    /\ At(c, "delete_items")
    /\ LET me == callers[c]
       IN IF me.target \in Keys(items)
          THEN /\ items' = ItemsDel(items, me.target)
               /\ Move(c, [me EXCEPT !.pc = "delete_access"])
          ELSE KeyError(c) /\ UNCHANGED items
    /\ UNCHANGED <<now, access_times, creation_times, lru_queue, used_ids>>

\* delete: del self.access_times[identifier]
DeleteAccess(c) ==
    /\ At(c, "delete_access")
    /\ LET me == callers[c]
       IN IF me.target \in DOMAIN access_times
          THEN /\ access_times' = MapDel(access_times, me.target)
               /\ Move(c, [me EXCEPT !.pc = "delete_creation"])
          ELSE KeyError(c) /\ UNCHANGED access_times
    /\ UNCHANGED <<now, items, creation_times, lru_queue, used_ids>>

\* delete: del self.creation_times[identifier]; return True
DeleteCreation(c) ==
    /\ At(c, "delete_creation")
    /\ LET me == callers[c]
       IN IF me.target \in DOMAIN creation_times
          THEN /\ creation_times' = MapDel(creation_times, me.target)
               /\ Move(c, [me EXCEPT !.pc = me.ret])
          ELSE KeyError(c) /\ UNCHANGED creation_times
    /\ UNCHANGED <<now, items, access_times, lru_queue, used_ids>>

\* get: if identifier not in self.items: return None
GetCheck(c) ==
    /\ At(c, "get_check")
    /\ LET me == callers[c]
       IN IF me.arg \in Keys(items)
          THEN Move(c, [me EXCEPT !.pc = "get_touch"])
          ELSE Move(c, [me EXCEPT !.pc = "done"])
    /\ UNCHANGED <<now, items, access_times, creation_times, lru_queue, used_ids>>

\* get: self.access_times[identifier] = time.time()
GetTouch(c) ==
    /\ At(c, "get_touch")
    /\ \E t \in Clock :
          /\ now' = t
          /\ access_times' = MapSet(access_times, callers[c].arg, t)
          /\ Move(c, [callers[c] EXCEPT !.pc = "get_return", !.t = t])
    /\ UNCHANGED <<items, creation_times, lru_queue, used_ids>>

\* get: return self.items[identifier]
GetReturn(c) ==
    /\ At(c, "get_return")
    /\ IF callers[c].arg \in Keys(items)
       THEN Move(c, [callers[c] EXCEPT !.pc = "done"])
       ELSE KeyError(c)
    /\ UNCHANGED <<now, items, access_times, creation_times, lru_queue, used_ids>>

\* update: if identifier not in self.items: return False
UpdateCheck(c) ==
    /\ At(c, "update_check")
    /\ LET me == callers[c]
       IN IF me.arg \in Keys(items)
          THEN Move(c, [me EXCEPT !.pc = "update_set"])
          ELSE Move(c, [me EXCEPT !.pc = "done"])
    /\ UNCHANGED <<now, items, access_times, creation_times, lru_queue, used_ids>>

\* update: self.items[identifier] = item
UpdateSet(c) ==
    /\ At(c, "update_set")
    /\ \E item \in MemItems : items' = ItemsSet(items, callers[c].arg, item)
    /\ Move(c, [callers[c] EXCEPT !.pc = "update_touch"])
    /\ UNCHANGED <<now, access_times, creation_times, lru_queue, used_ids>>

\* update: self.access_times[identifier] = time.time(); return True
UpdateTouch(c) ==
    /\ At(c, "update_touch")
    /\ \E t \in Clock :
          /\ now' = t
          /\ access_times' = MapSet(access_times, callers[c].arg, t)
          /\ Move(c, [callers[c] EXCEPT !.pc = "done", !.t = t])
    /\ UNCHANGED <<items, creation_times, lru_queue, used_ids>>

\* add: identifier = str(uuid.uuid4()); self.items[identifier] = item
AddItems(c) ==
    /\ At(c, "add_items")
    /\ RaceIds \ used_ids # {}
    /\ LET unused == RaceIds \ used_ids
           identifier == CHOOSE x \in unused : \A y \in unused : x <= y
       IN /\ \E item \in MemItems : items' = ItemsSet(items, identifier, item)
          /\ used_ids' = used_ids \cup {identifier}
          /\ Move(c, [callers[c] EXCEPT !.pc = "add_access", !.arg = identifier])
    /\ UNCHANGED <<now, access_times, creation_times, lru_queue>>

\* add: current_time = time.time(); self.access_times[identifier] = current_time
AddAccess(c) ==
    /\ At(c, "add_access")
    /\ \E t \in Clock :
          /\ now' = t
          /\ access_times' = MapSet(access_times, callers[c].arg, t)
          /\ Move(c, [callers[c] EXCEPT !.pc = "add_creation", !.t = t])
    /\ UNCHANGED <<items, creation_times, lru_queue, used_ids>>

\* add: self.creation_times[identifier] = current_time
AddCreation(c) ==
    /\ At(c, "add_creation")
    /\ creation_times' = MapSet(creation_times, callers[c].arg, callers[c].t)
    /\ Move(c, [callers[c] EXCEPT !.pc = "add_push"])
    /\ UNCHANGED <<now, items, access_times, lru_queue, used_ids>>

\* add: heapq.heappush(self.lru_queue, (current_time, identifier))
AddPush(c) ==
    /\ At(c, "add_push")
    /\ lru_queue' = lru_queue \cup {<<callers[c].t, callers[c].arg>>}
    /\ Move(c, [callers[c] EXCEPT !.pc = "add_capacity"])
    /\ UNCHANGED <<now, items, access_times, creation_times, used_ids>>

\* add: if len(self.items) > self.capacity: self._evict_lru()
AddCapacity(c) ==
    /\ At(c, "add_capacity")
    /\ IF Len(items) > capacity
       THEN Move(c, [callers[c] EXCEPT !.pc = "evict_pop"])
       ELSE Move(c, [callers[c] EXCEPT !.pc = "done"])
    /\ UNCHANGED <<now, items, access_times, creation_times, lru_queue, used_ids>>

\* _evict_lru: while self.lru_queue: _, identifier = heapq.heappop(self.lru_queue)
EvictPop(c) ==
    /\ At(c, "evict_pop")
    /\ IF lru_queue = {}
       THEN Move(c, [callers[c] EXCEPT !.pc = "done"]) /\ UNCHANGED lru_queue
       ELSE LET e == HeapMin(lru_queue)
            IN /\ lru_queue' = lru_queue \ {e}
               /\ Move(c, [callers[c] EXCEPT !.pc = "evict_check", !.target = e[2]])
    /\ UNCHANGED <<now, items, access_times, creation_times, used_ids>>

\* _evict_lru: if identifier not in self.items: continue
EvictCheck(c) ==
    /\ At(c, "evict_check")
    /\ IF callers[c].target \in Keys(items)
       THEN Move(c, [callers[c] EXCEPT !.pc = "evict_name"])
       ELSE Move(c, [callers[c] EXCEPT !.pc = "evict_pop"])
    /\ UNCHANGED <<now, items, access_times, creation_times, lru_queue, used_ids>>

\* _evict_lru: item_name = self.items[identifier].get(...); then
\* self.delete(identifier) and break
EvictName(c) ==
    /\ At(c, "evict_name")
    /\ IF callers[c].target \in Keys(items)
       THEN Move(c, [callers[c] EXCEPT !.pc = "delete_check", !.ret = "done"])
       ELSE KeyError(c)
    /\ UNCHANGED <<now, items, access_times, creation_times, lru_queue, used_ids>>

\* a store filled to its capacity by adds at time 0, and two calls entered
\* on it: get, update and delete of a stored identifier, or add
RaceInit ==
    /\ capacity \in 1..MaxCapacity
    /\ ttl = MaxTtl
    /\ now = 0
    /\ items = [i \in 1..capacity |-> <<i, "p">>]
    /\ access_times = [i \in 1..capacity |-> 0]
    /\ creation_times = [i \in 1..capacity |-> 0]
    /\ lru_queue = {<<0, i>> : i \in 1..capacity}
    /\ used_ids = 1..capacity
    /\ lastOp = [op |-> "init", arg |-> NoId, found |-> FALSE, hits |-> <<>>,
                 evicted |-> NoId, pruned |-> {}, fresh |-> {}]
    /\ addRun = <<>>
    /\ calls = 0
    /\ callers \in [Callers ->
          {CallRecord(op, arg, EntryPoint(op)) :
              op \in RaceOps \ {"add"}, arg \in 1..capacity}
          \cup {CallRecord("add", NoId, EntryPoint("add"))}]

RaceNext ==
    \/ \E c \in Callers : PruneScan(c) /\ RaceFrame
    \/ \E c \in Callers : PruneNext(c) /\ RaceFrame
    \/ \E c \in Callers : DeleteCheck(c) /\ RaceFrame
    \/ \E c \in Callers : DeleteItems(c) /\ RaceFrame
    \/ \E c \in Callers : DeleteAccess(c) /\ RaceFrame
    \/ \E c \in Callers : DeleteCreation(c) /\ RaceFrame
    \/ \E c \in Callers : GetCheck(c) /\ RaceFrame
    \/ \E c \in Callers : GetTouch(c) /\ RaceFrame
    \/ \E c \in Callers : GetReturn(c) /\ RaceFrame
    \/ \E c \in Callers : UpdateCheck(c) /\ RaceFrame
    \/ \E c \in Callers : UpdateSet(c) /\ RaceFrame
    \/ \E c \in Callers : UpdateTouch(c) /\ RaceFrame
    \/ \E c \in Callers : AddItems(c) /\ RaceFrame
    \/ \E c \in Callers : AddAccess(c) /\ RaceFrame
    \/ \E c \in Callers : AddCreation(c) /\ RaceFrame
    \/ \E c \in Callers : AddPush(c) /\ RaceFrame
    \/ \E c \in Callers : AddCapacity(c) /\ RaceFrame
    \/ \E c \in Callers : EvictPop(c) /\ RaceFrame
    \/ \E c \in Callers : EvictCheck(c) /\ RaceFrame
    \/ \E c \in Callers : EvictName(c) /\ RaceFrame

-----------------------------------------------------------------------------
(* TaskPlanner *)

\* step ids; create_plan gives the i-th step of the model's answer the id i
\* (its own "id", or the generated "step-<i>-<uuid>")
StepIds == 1..MaxSteps

\* dependency lists the language model may answer with
DepSets == {{}, {1}, {2}, {1, 2}}

NoResult == "none"
Results == {"ok"}
Feedbacks == {"f1", "f2"}
NoFeedback == "none"

\* the step dictionaries the language model may answer a replan with
NewStepShapes == [id : {1, 2}, deps : {{}, {1}}, result : {NoResult}]

\* get_next_step's None
NoStep == [id |-> NoId, deps |-> {}, result |-> NoResult]

\* plan_data["steps"] as extract_json may return it for create_plan
PlanOutputs ==
    UNION {{[i \in 1..n |-> [id |-> i, deps |-> d[i], result |-> NoResult]] :
               d \in [1..n -> DepSets]} : n \in 0..MaxSteps}

\* updated_plan_data["steps"] as extract_json may return it for replan
ReplanOutputs ==
    {<<>>} \cup {<<s>> : s \in NewStepShapes}

\* [step.get("id") for step in plan.get("completed_steps", [])]
CompletedIds(p) == {p.completed_steps[i].id : i \in DOMAIN p.completed_steps}

\* mutant of DepsSatisfied: one completed dependency is enough
DepsSatisfiedAny(step, p) ==
    step.deps = {} \/ \E d \in step.deps : d \in CompletedIds(p)

\* every dep_id of the step is in completed_step_ids
DepsSatisfied(step, p) == \A d \in step.deps : d \in CompletedIds(p)

\* the loop of _find_executable_step from index i (0-based)
RECURSIVE FindFrom(_, _)
FindFrom(p, i) ==
    IF i >= Len(p.steps) THEN NoStep
    ELSE IF DepsSatisfied(p.steps[i + 1], p) THEN p.steps[i + 1]
         ELSE FindFrom(p, i + 1)

\* mutant of FindExecutableStep: the scan starts at the first step
FindFromStart(p) == FindFrom(p, 0)

\* _find_executable_step
FindExecutableStep(p) == FindFrom(p, p.current_step_index)

\* get_next_step
GetNextStep(p) ==
    IF p.current_step_index >= Len(p.steps) THEN NoStep
    ELSE LET next_step == p.steps[p.current_step_index + 1]
         IN IF next_step.deps # {} /\ ~DepsSatisfied(next_step, p)
            THEN FindExecutableStep(p)
            ELSE next_step

\* index (0-based) of the first step with that id, or -1
RECURSIVE StepIndex(_, _, _)
StepIndex(steps, step_id, i) ==
    IF i >= Len(steps) THEN -1
    ELSE IF steps[i + 1].id = step_id THEN i
         ELSE StepIndex(steps, step_id, i + 1)

\* mutant of MarkStepComplete: the cursor advances for any step found
MarkAlwaysAdvance(p, step_id, result) ==
    LET step_index == StepIndex(p.steps, step_id, 0)
    IN IF step_index = -1 THEN p
       ELSE LET cursor == p.current_step_index + 1
            IN [p EXCEPT
                 !.completed_steps = Append(p.completed_steps,
                        [p.steps[step_index + 1] EXCEPT !.result = result]),
                 !.current_step_index = cursor,
                 !.status = IF cursor >= Len(p.steps) THEN "completed" ELSE p.status]

\* mark_step_complete
MarkStepComplete(p, step_id, result) ==
    LET step_index == StepIndex(p.steps, step_id, 0)
    IN IF step_index = -1 THEN p
       ELSE LET cursor == IF step_index = p.current_step_index
                          THEN p.current_step_index + 1
                          ELSE p.current_step_index
            IN [p EXCEPT
                 !.completed_steps = Append(p.completed_steps,
                        [p.steps[step_index + 1] EXCEPT !.result = result]),
                 !.current_step_index = cursor,
                 !.status = IF cursor >= Len(p.steps) THEN "completed" ELSE p.status]

\* replan, when extract_json returns new_steps
ReplanOk(p, feedback, new_steps) ==
    LET merged == p.completed_steps \o new_steps
    IN [p EXCEPT
         !.steps = merged,
         !.status = "updated",
         !.current_step_index = IF Len(p.completed_steps) < Len(merged)
                                THEN Len(p.completed_steps) ELSE 0,
         !.feedback = feedback]

\* mutant of ReplanError: the failed replan also rewinds the cursor
ReplanErrorRewinds(p) ==
    [p EXCEPT !.status = "error", !.error = TRUE, !.current_step_index = 0]

\* replan, when extract_json raises
ReplanError(p) == [p EXCEPT !.status = "error", !.error = TRUE]

\* one more TaskPlanner call is made
PlanCalled == plan_calls < MaxPlanCalls /\ plan_calls' = plan_calls + 1

PlanOpRecord(op, arg, step, new_steps, feedback) ==
    [op |-> op, arg |-> arg, step |-> step, new_steps |-> new_steps,
     feedback |-> feedback]

\* create_plan, the model answering with steps
CreatePlan(steps) ==
    /\ plan.status = "none"
    /\ plan' = [status |-> "created", steps |-> steps, current_step_index |-> 0,
                completed_steps |-> <<>>, feedback |-> NoFeedback, error |-> FALSE]
    /\ planOp' = PlanOpRecord("create_plan", NoId, NoStep, steps, NoFeedback)

\* create_plan, extract_json raising
CreatePlanError ==
    /\ plan.status = "none"
    /\ plan' = [status |-> "error", steps |-> <<>>, current_step_index |-> 0,
                completed_steps |-> <<>>, feedback |-> NoFeedback, error |-> TRUE]
    /\ planOp' = PlanOpRecord("create_plan_error", NoId, NoStep, <<>>, NoFeedback)

\* plan = get_next_step(plan)
GetNext ==
    /\ plan.status # "none"
    /\ planOp' = PlanOpRecord("get_next_step", NoId, GetNextStep(plan), <<>>, NoFeedback)
    /\ UNCHANGED plan

\* plan = mark_step_complete(plan, step_id, result)
Mark(step_id, result) ==
    /\ plan.status # "none"
    /\ plan' = MarkStepComplete(plan, step_id, result)
    /\ planOp' = PlanOpRecord("mark_step_complete", step_id, NoStep, <<>>, NoFeedback)

\* plan = replan(plan, feedback), the model answering with new_steps
Replan(feedback, new_steps) ==
    /\ plan.status # "none"
    /\ plan' = ReplanOk(plan, feedback, new_steps)
    /\ planOp' = PlanOpRecord("replan", NoId, NoStep, new_steps, feedback)

\* plan = replan(plan, feedback), extract_json raising
ReplanFail(feedback) ==
    /\ plan.status # "none"
    /\ plan' = ReplanError(plan)
    /\ planOp' = PlanOpRecord("replan_error", NoId, NoStep, <<>>, feedback)

NoPlan == [status |-> "none", steps |-> <<>>, current_step_index |-> 0,
           completed_steps |-> <<>>, feedback |-> NoFeedback, error |-> FALSE]

PlanIdle ==
    /\ plan = NoPlan
    /\ planOp = PlanOpRecord("init", NoId, NoStep, <<>>, NoFeedback)
    /\ plan_calls = 0

PlanNext ==
    \/ \E steps \in PlanOutputs : PlanCalled /\ CreatePlan(steps) /\ UNCHANGED <<memVars, loopVars, hybridVars, collVars, longVars>>
    \/ PlanCalled /\ CreatePlanError /\ UNCHANGED <<memVars, loopVars, hybridVars, collVars, longVars>>
    \/ GetNext /\ UNCHANGED <<memVars, plan_calls, loopVars, hybridVars, collVars, longVars>>
    \/ \E id \in StepIds, r \in Results :
            PlanCalled /\ Mark(id, r) /\ UNCHANGED <<memVars, loopVars, hybridVars, collVars, longVars>>
    \/ \E f \in Feedbacks, new_steps \in ReplanOutputs :
            PlanCalled /\ Replan(f, new_steps) /\ UNCHANGED <<memVars, loopVars, hybridVars, collVars, longVars>>
    \/ \E f \in Feedbacks : PlanCalled /\ ReplanFail(f) /\ UNCHANGED <<memVars, loopVars, hybridVars, collVars, longVars>>

\* A caller driving one plan to its end: create_plan, then get_next_step and
\* mark_step_complete of the step it returned, in turns

\* the plans of n steps the driven planner is given: any dependency lists
\* over the plan's own step ids
DrivePlans(n) ==
    {[i \in 1..n |-> [id |-> i, deps |-> d[i], result |-> NoResult]] :
        d \in [1..n -> SUBSET (1..n)]}

\* the calls the driver makes at most
MaxDriveCalls == 2 * MaxSteps + 2

DriveCalled == plan_calls < MaxDriveCalls /\ plan_calls' = plan_calls + 1

DriveCreate ==
    /\ plan.status = "none"
    /\ \E n \in 1..MaxSteps : \E steps \in DrivePlans(n) : DriveCalled /\ CreatePlan(steps)

DriveGet ==
    /\ planOp.op \in {"create_plan", "mark_step_complete"}
    /\ GetNext
    /\ UNCHANGED plan_calls

DriveMark ==
    /\ planOp.op = "get_next_step"
    /\ planOp.step # NoStep
    /\ \E r \in Results : DriveCalled /\ Mark(planOp.step.id, r)

DriveNext ==
    \/ DriveCreate /\ UNCHANGED <<memVars, loopVars, hybridVars, collVars, longVars>>
    \/ DriveGet /\ UNCHANGED <<memVars, loopVars, hybridVars, collVars, longVars>>
    \/ DriveMark /\ UNCHANGED <<memVars, loopVars, hybridVars, collVars, longVars>>

-----------------------------------------------------------------------------
(* ReactAgent.execute: the think-decide-act-observe loop *)

\* action names: tools whose module anus.tools.<name> exists, and the
\* placeholder name, for which no module exists
Loadable == {"calculator", "search"}
ActionNames == Loadable \cup {"dummy_action"}
NoAction == "none"

\* what tool.execute(**action_input) may do: return a dictionary carrying its
\* own "status" ("success" with a plain "result", as the calculator does, or
\* "error"), return a value without "status" ("v1", "v2": a dictionary of the
\* search, text or code tool), or raise
ToolReturns == {"status_success", "status_error", "v1", "v2", "raise"}

\* the observations: {"status": "success", "result": v} wrapping a returned
\* value ("v1", "v2"), a tool's own success dictionary handed on as it is
\* ("direct"), or a dictionary with status "error" ("err")
ObsKinds == {"v1", "v2", "direct", "err"}

\* observation["status"]
ObsStatus(o) == IF o = "err" THEN "error" ELSE "success"

\* _execute_action, lines 155-172: the try block around tool.execute
Observe(ret) ==
    CASE ret = "status_success" -> "direct"
      [] ret = "status_error" -> "err"
      [] ret = "raise" -> "err"
      [] OTHER -> ret

\* mutant of LoadTool: a tool that was loaded is not registered
LoadToolNoRegister(name, registered) ==
    [ok |-> name \in Loadable, tools |-> registered]

\* load_tool: import anus.tools.<name>, instantiate, register; any failure
\* is caught and reported as False
LoadTool(name, registered) ==
    IF name \in Loadable
    THEN [ok |-> TRUE, tools |-> registered \cup {name}]
    ELSE [ok |-> FALSE, tools |-> registered]

\* ToolAgent._execute_action(name, input) with the tool behaving as ret:
\* the observation, the registry afterwards, and how many load_tool and
\* tool.execute calls were made. depth counts the recursive retries (line
\* 177), which end once the name is registered.
RECURSIVE ToolExecute(_, _, _, _)
ToolExecute(name, registered, ret, depth) ==
    IF name \in registered
    THEN [name |-> name, observation |-> Observe(ret), tools |-> registered,
          loads |-> depth, executes |-> 1]
    ELSE LET loaded == LoadTool(name, registered)
         IN IF loaded.ok /\ depth < MaxRetries
            THEN ToolExecute(name, loaded.tools, ret, depth + 1)
            ELSE [name |-> name,
                  observation |-> IF loaded.ok THEN "recursion_error" ELSE "err",
                  tools |-> loaded.tools,
                  loads |-> depth + 1, executes |-> 0]

NoLastAction == [name |-> NoAction, observation |-> "err", tools |-> {},
                 loads |-> 0, executes |-> 0]

UnableAnswer == "unable"
NoAnswer == "none"

\* mutant of LoopGuard: one iteration too many
LoopGuardOffByOne(iteration, limit) == iteration <= limit

\* while self.current_iteration < self.max_iterations
LoopGuard(iteration, limit) == iteration < limit

\* mutant of LoopBreaks: an error observation ends the loop too
LoopBreaksOnError(stop, observation) == stop \/ observation = "err"

\* "if self._should_terminate(context): break": the observation just made
\* has no part in it
LoopBreaks(stop, observation) == stop

\* mutant of DefaultShouldTerminate: the budget itself is the last index
DefaultTerminatesAtBudget == current_iteration >= max_iterations

\* ReactAgent._should_terminate as written
DefaultShouldTerminate == current_iteration >= max_iterations - 1

\* _generate_final_answer: the first observation whose "result" is a
\* dictionary it can format decides; a plain "result" (the calculator's
\* dictionary handed on as it is) and an error are passed over
RECURSIVE FinalAnswer(_)
FinalAnswer(obs) ==
    IF obs = <<>> THEN UnableAnswer
    ELSE IF Head(obs) \in {"v1", "v2"} THEN Head(obs)
         ELSE FinalAnswer(Tail(obs))

\* an exception leaves execute: nothing in execute catches it
Raise ==
    /\ pc' = "raised"
    /\ UNCHANGED <<toolVars, max_iterations, predicate, agent_status, current_iteration,
                   thoughts, actions, observations, outcome>>

\* execute(task) is called: lines 42-51
Execute ==
    /\ pc \in {"idle", "returned", "raised"}
    /\ agent_status' = "executing"
    /\ current_iteration' = 0
    /\ thoughts' = 0
    /\ actions' = 0
    /\ observations' = <<>>
    /\ outcome' = [answer |-> NoAnswer, iterations |-> 0]
    /\ pc' = "loop"
    /\ action_name' = NoAction
    /\ lastAction' = NoLastAction
    /\ UNCHANGED <<tools, max_iterations, predicate>>

\* the while test
LoopTest ==
    /\ pc = "loop"
    /\ pc' = IF LoopGuard(current_iteration, max_iterations) THEN "thought" ELSE "final"
    /\ UNCHANGED <<toolVars, max_iterations, predicate, agent_status, current_iteration,
                   thoughts, actions, observations, outcome>>

\* thought = self._generate_thought(context)
GenerateThought ==
    /\ pc = "thought"
    /\ \/ /\ thoughts' = thoughts + 1
          /\ pc' = "decide"
          /\ UNCHANGED <<toolVars, max_iterations, predicate, agent_status, current_iteration,
                         actions, observations, outcome>>
       \/ Raise

\* action_name, action_input = self._decide_action(context): a registered
\* tool or the placeholder as ToolAgent decides, any name if overridden
DecideAction ==
    /\ pc = "decide"
    /\ \/ \E name \in ActionNames :
            /\ action_name' = name
            /\ actions' = actions + 1
            /\ pc' = "act"
            /\ UNCHANGED <<tools, lastAction, max_iterations, predicate,
                           agent_status, current_iteration, thoughts,
                           observations, outcome>>
       \/ Raise

\* observation = self._execute_action(action_name, action_input), the
\* ToolAgent's: it returns an observation whatever the tool does
ExecuteAction ==
    /\ pc = "act"
    /\ \E ret \in ToolReturns :
          LET done == ToolExecute(action_name, tools, ret, 0)
          IN /\ lastAction' = done
             /\ tools' = done.tools
             /\ observations' = Append(observations, done.observation)
             /\ pc' = "check"
             /\ UNCHANGED <<action_name, max_iterations, predicate, agent_status,
                            current_iteration, thoughts, actions, outcome>>

\* if self._should_terminate(context): break; else current_iteration += 1
ShouldTerminate ==
    /\ pc = "check"
    /\ \/ \E stop \in BOOLEAN :
            /\ predicate = "default" => stop = DefaultShouldTerminate
            /\ LET break == LoopBreaks(stop, observations[Len(observations)])
               IN /\ pc' = IF break THEN "final" ELSE "loop"
                  /\ current_iteration' = IF break THEN current_iteration
                                          ELSE current_iteration + 1
            /\ UNCHANGED <<toolVars, max_iterations, predicate, agent_status, thoughts,
                           actions, observations, outcome>>
       \/ Raise

\* final_answer = self._generate_final_answer(context); lines 83-93
GenerateFinalAnswer ==
    /\ pc = "final"
    /\ \/ /\ outcome' = [answer |-> FinalAnswer(observations),
                        iterations |-> current_iteration]
          /\ agent_status' = "completed"
          /\ pc' = "returned"
          /\ UNCHANGED <<toolVars, max_iterations, predicate, current_iteration, thoughts,
                         actions, observations>>
       \/ Raise

\* a ReactAgent just constructed
NotStarted ==
    /\ action_name = NoAction
    /\ lastAction = NoLastAction
    /\ agent_status = "initialized"
    /\ current_iteration = 0
    /\ thoughts = 0
    /\ actions = 0
    /\ observations = <<>>
    /\ outcome = [answer |-> NoAnswer, iterations |-> 0]
    /\ pc = "idle"

\* ReactAgent(max_iterations=N), _should_terminate as written or overridden
LoopInit ==
    /\ max_iterations \in 0..MaxIterations
    /\ predicate \in {"default", "custom"}
    /\ tools \in {{}, {"calculator"}}
    /\ NotStarted

\* a ReactAgent nobody runs
LoopIdle ==
    /\ max_iterations = 0
    /\ predicate = "default"
    /\ tools = {}
    /\ NotStarted

\* the steps of a running execute
LoopStep ==
    \/ LoopTest
    \/ GenerateThought
    \/ DecideAction
    \/ ExecuteAction
    \/ ShouldTerminate
    \/ GenerateFinalAnswer

LoopNext ==
    \/ Execute /\ UNCHANGED <<memVars, planVars, hybridVars, collVars, longVars>>
    \/ LoopTest /\ UNCHANGED <<memVars, planVars, hybridVars, collVars, longVars>>
    \/ GenerateThought /\ UNCHANGED <<memVars, planVars, hybridVars, collVars, longVars>>
    \/ DecideAction /\ UNCHANGED <<memVars, planVars, hybridVars, collVars, longVars>>
    \/ ExecuteAction /\ UNCHANGED <<memVars, planVars, hybridVars, collVars, longVars>>
    \/ ShouldTerminate /\ UNCHANGED <<memVars, planVars, hybridVars, collVars, longVars>>
    \/ GenerateFinalAnswer /\ UNCHANGED <<memVars, planVars, hybridVars, collVars, longVars>>

-----------------------------------------------------------------------------
(* HybridAgent.execute: the choice between single-agent and multi-agent mode *)

Roles == {"researcher", "planner", "coder"}
Modes == {"auto", "single", "multi"}
\* execute called without a mode keyword
NoMode == "none"

\* tasks, by what _analyze_task_complexity reads of them: the number of
\* words, of complexity keywords and of funny keywords they contain
Tasks == [words : {3, 60}, keywords : 0..MaxKeywords, funny : 0..MaxFunny]

Min(a, b) == IF a < b THEN a ELSE b

\* _analyze_task_complexity, in tenths of a point:
\* min(len(words) / 10, 5) + 0.5 per complexity keyword + 0.3 per funny keyword
Complexity(task) == Min(task.words, 50) + 5 * task.keywords + 3 * task.funny

SeqToSet(s) == {s[i] : i \in DOMAIN s}

\* mutant of DetermineMode: the threshold is not consulted
DetermineModeIgnoresScore(task, agents, threshold) ==
    [mode |-> IF agents # <<>> THEN "multi" ELSE "single", consulted |-> TRUE]

\* _determine_mode: "complexity >= threshold and self.specialized_agents"
\* evaluates the registry only when the score reaches the threshold
DetermineMode(task, agents, threshold) ==
    IF Complexity(task) >= threshold
    THEN [mode |-> IF agents # <<>> THEN "multi" ELSE "single", consulted |-> TRUE]
    ELSE [mode |-> "single", consulted |-> FALSE]

\* mutant of DecomposeTask: only the first registered role gets a subtask
DecomposeFirstRoleOnly(agents) == SubSeq(agents, 1, 1)

\* _decompose_task as written: one subtask per registered role, in the order
\* of list(self.specialized_agents.keys()); the i-th has id "subtask-<i>"
DecomposeTask(agents) == agents

\* the loop of _execute_multi over the subtasks: a role with an agent gets the
\* result of its agent's execute (which carries an "answer"), a role without
\* one gets {"status": "error", "error": ...}
SubtaskResults(subtasks, agents) ==
    [i \in DOMAIN subtasks |->
        IF subtasks[i] \in SeqToSet(agents) THEN "answer" ELSE "error"]

\* the specialized agents executed, in the order they were run
AgentRuns(subtasks, agents) ==
    SelectSeq(subtasks, LAMBDA role : role \in SeqToSet(agents))

\* mutant of AggregateFrom: the first error entry ends the aggregation
RECURSIVE AggregateUntilError(_, _, _)
AggregateUntilError(subtasks, results, i) ==
    IF i > Len(subtasks) \/ results[i] = "error" THEN <<>>
    ELSE <<subtasks[i]>> \o AggregateUntilError(subtasks, results, i + 1)

\* _aggregate_results: the roles whose "[role]: answer" parts make up the
\* final answer, in the order of the parts
RECURSIVE AggregateFrom(_, _, _)
AggregateFrom(subtasks, results, i) ==
    IF i > Len(subtasks) THEN <<>>
    ELSE (IF results[i] = "answer" THEN <<subtasks[i]>> ELSE <<>>)
         \o AggregateFrom(subtasks, results, i + 1)

AggregateResults(subtasks, results) == AggregateFrom(subtasks, results, 1)

\* _execute_single: the agent's own ToolAgent loop runs, no subtask exists
ExecuteSingle == [own_loops |-> 1, subtasks |-> <<>>, results |-> <<>>,
                  agent_runs |-> <<>>, answer |-> <<>>]

\* _execute_multi past its guard: decompose, run every subtask, aggregate
FanOut(subtasks, agents) ==
    LET results == SubtaskResults(subtasks, agents)
    IN [own_loops |-> 0,
        subtasks |-> subtasks,
        results |-> results,
        agent_runs |-> AgentRuns(subtasks, agents),
        answer |-> AggregateResults(subtasks, results)]

\* _execute_multi: "if not self.specialized_agents" falls back to
\* _execute_single
ExecuteMulti(subtasks, agents) ==
    IF agents = <<>> THEN ExecuteSingle ELSE FanOut(subtasks, agents)

\* mutant of Dispatch: an empty registry does not force the single loop
DispatchNoFallback(mode, agents, subtasks) ==
    IF mode = "single" THEN ExecuteSingle ELSE FanOut(subtasks, agents)

\* execute, lines 145-148: "mode == 'single' or not self.specialized_agents"
Dispatch(mode, agents, subtasks) ==
    IF mode = "single" \/ agents = <<>>
    THEN ExecuteSingle
    ELSE ExecuteMulti(subtasks, agents)

\* HybridAgent.execute(task, mode=requested): what it ran and whether it
\* evaluated self.specialized_agents on the way; subtasks is what
\* _decompose_task answers if it is called
RunExecute(task, requested, configured, agents, threshold, subtasks) ==
    LET mode0 == IF requested = NoMode THEN configured ELSE requested
        determined == IF mode0 = "auto" THEN DetermineMode(task, agents, threshold)
                      ELSE [mode |-> mode0, consulted |-> FALSE]
        mode == determined.mode
        ran == Dispatch(mode, agents, subtasks)
    IN [task |-> task,
        requested |-> mode0,
        mode |-> mode,
        own_loops |-> ran.own_loops,
        agent_runs |-> ran.agent_runs,
        subtasks |-> ran.subtasks,
        subtask_results |-> ran.results,
        answer |-> ran.answer,
        registry_consulted |-> determined.consulted \/ mode # "single"]

\* add_specialized_agent(role, config)
AddSpecializedAgent(role) ==
    /\ specialized_agents' =
          IF role \in SeqToSet(specialized_agents) THEN specialized_agents
          ELSE Append(specialized_agents, role)
    /\ UNCHANGED <<hybrid_mode, complexity_threshold, hybrid_status, lastExecute>>

\* execute(task, mode=requested)
HybridExecute(task, requested) ==
    /\ lastExecute' = RunExecute(task, requested, hybrid_mode, specialized_agents,
                                 complexity_threshold,
                                 DecomposeTask(specialized_agents))
    /\ hybrid_status' = "completed"
    /\ UNCHANGED <<hybrid_mode, complexity_threshold, specialized_agents>>

\* what an overriding _decompose_task (the written one is a placeholder for a
\* language model) may answer: subtasks for any roles
CustomDecompositions == {<<a>> : a \in Roles} \cup {<<a, b>> : a, b \in Roles}

\* tasks given to an agent with an overriding _decompose_task
ShortTasks == {task \in Tasks : task.words = 3 /\ task.keywords = 0 /\ task.funny = 0}

\* execute(task, mode="multi") of a subclass overriding _decompose_task
HybridExecuteDecomposed(task, subtasks) ==
    /\ lastExecute' = RunExecute(task, "multi", hybrid_mode, specialized_agents,
                                 complexity_threshold, subtasks)
    /\ hybrid_status' = "completed"
    /\ UNCHANGED <<hybrid_mode, complexity_threshold, specialized_agents>>

NoExecute ==
    [task |-> [words |-> 3, keywords |-> 0, funny |-> 0], requested |-> NoMode,
     mode |-> NoMode, own_loops |-> 0, agent_runs |-> <<>>,
     subtasks |-> <<>>, subtask_results |-> <<>>, answer |-> <<>>,
     registry_consulted |-> FALSE]

\* HybridAgent(mode=m, complexity_threshold=7 or 3.0)
HybridInit ==
    /\ hybrid_mode \in Modes
    /\ complexity_threshold \in {30, 70}
    /\ specialized_agents = <<>>
    /\ hybrid_status = "initialized"
    /\ lastExecute = NoExecute

HybridIdle ==
    /\ hybrid_mode = "auto"
    /\ complexity_threshold = 70
    /\ specialized_agents = <<>>
    /\ hybrid_status = "initialized"
    /\ lastExecute = NoExecute

HybridNext ==
    \/ \E role \in Roles :
          AddSpecializedAgent(role) /\ UNCHANGED <<memVars, planVars, loopVars, collVars, longVars>>
    \/ \E task \in Tasks, requested \in Modes \cup {NoMode} :
          HybridExecute(task, requested) /\ UNCHANGED <<memVars, planVars, loopVars, collVars, longVars>>
    \/ \E task \in ShortTasks, subtasks \in CustomDecompositions :
          HybridExecuteDecomposed(task, subtasks)
             /\ UNCHANGED <<memVars, planVars, loopVars, collVars, longVars>>

-----------------------------------------------------------------------------
(* ToolCollection: registration, lookup and invocation of tools *)

ToolNames == {"calculator", "search", "text"}

\* what tool.validate_input(**kwargs) may do
Validations == {"valid", "invalid", "raise"}

\* get_tool(name) when instantiating a registered class succeeds (ok) or
\* raises: the tool found (or not) and self.tools afterwards
GetTool(name, registered, classes, ok) ==
    IF name \in registered THEN [found |-> TRUE, tools |-> registered]
    ELSE IF name \in classes /\ ok
         THEN [found |-> TRUE, tools |-> registered \cup {name}]
         ELSE [found |-> FALSE, tools |-> registered]

\* execute_tool past the lookup, lines 98-111: the returned dictionary's
\* status, and what its "result" holds
InvokeFound(validation, ret) ==
    IF validation # "valid" \/ ret = "raise"
    THEN [status |-> "error", inner |-> "none"]
    ELSE [status |-> "success", inner |-> ret]

\* execute_tool(name, **kwargs)
ExecuteTool(name, ok, validation, ret) ==
    LET got == GetTool(name, collection_tools, tool_classes, ok)
        returned == IF got.found THEN InvokeFound(validation, ret)
                    ELSE [status |-> "error", inner |-> "none"]
    IN /\ collection_tools' = got.tools
       /\ lastInvoke' = [name |-> name, found |-> got.found,
                         validation |-> validation, ret |-> ret,
                         status |-> returned.status, inner |-> returned.inner]
       /\ UNCHANGED tool_classes

\* register_tool(tool)
RegisterTool(name) ==
    /\ collection_tools' = collection_tools \cup {name}
    /\ UNCHANGED <<tool_classes, lastInvoke>>

\* register_tool_class(tool_class)
RegisterToolClass(name) ==
    /\ tool_classes' = tool_classes \cup {name}
    /\ UNCHANGED <<collection_tools, lastInvoke>>

NoInvoke == [name |-> NoAction, found |-> FALSE, validation |-> "valid",
             ret |-> "raise", status |-> "error", inner |-> "none"]

\* ToolCollection()
CollInit ==
    /\ collection_tools = {}
    /\ tool_classes = {}
    /\ lastInvoke = NoInvoke

CollNext ==
    \/ \E name \in ToolNames :
          RegisterTool(name) /\ UNCHANGED <<memVars, planVars, loopVars, hybridVars, longVars>>
    \/ \E name \in ToolNames :
          RegisterToolClass(name) /\ UNCHANGED <<memVars, planVars, loopVars, hybridVars, longVars>>
    \/ \E name \in ToolNames, ok \in BOOLEAN, validation \in Validations,
          ret \in ToolReturns :
          ExecuteTool(name, ok, validation, ret)
             /\ UNCHANGED <<memVars, planVars, loopVars, hybridVars, longVars>>

-----------------------------------------------------------------------------
(* LongTermMemory: one file per item, with an optional in-memory index *)

\* uuid4 strings of the long-term store
LongIds == 1..MaxLongIds

\* the items stored, by their payload
LongItems == {"p", "q"}

\* what a file holds: an item as json.dump wrote it, or the beginning of one
\* (json.dump raised after open(item_path, "w") had truncated the file)
Partial == "partial"

\* how the write of _save_item goes: it succeeds, open raises, or json.dump
\* raises
Writes == {"ok", "open_fails", "dump_fails"}

\* get's None
Absent == "absent"

\* _save_item: the files afterwards; the exception is logged, nothing is
\* returned or raised
SaveItem(files, identifier, item, write) ==
    CASE write = "ok" ->
            [x \in DOMAIN files \cup {identifier} |->
                IF x = identifier THEN item ELSE files[x]]
      [] write = "dump_fails" ->
            [x \in DOMAIN files \cup {identifier} |->
                IF x = identifier THEN Partial ELSE files[x]]
      [] OTHER -> files

\* self.index[identifier] = item_with_metadata, if self.index_in_memory
IndexPut(idx, identifier, item) ==
    IF index_in_memory
    THEN [x \in DOMAIN idx \cup {identifier} |-> IF x = identifier THEN item ELSE idx[x]]
    ELSE idx

\* get(identifier), the read of the file succeeding (read_ok) or raising
LongGetValue(identifier, read_ok) ==
    IF index_in_memory /\ identifier \in DOMAIN index THEN index[identifier]
    ELSE IF identifier \notin DOMAIN disk THEN Absent
    ELSE IF read_ok /\ disk[identifier] # Partial THEN disk[identifier]
    ELSE Absent

LongRecord(op, arg, item, write, io_ok, returned) ==
    [op |-> op, arg |-> arg, item |-> item, write |-> write, io_ok |-> io_ok,
     returned |-> returned, raised |-> FALSE]

\* add(item)
LongAdd(item, write) ==
    \E identifier \in LongIds \ (DOMAIN index \cup DOMAIN disk) :
        /\ disk' = SaveItem(disk, identifier, item, write)
        /\ index' = IndexPut(index, identifier, item)
        /\ lastLong' = LongRecord("add", identifier, item, write, write = "ok", "id")
        /\ UNCHANGED index_in_memory

\* get(identifier)
LongGet(identifier, read_ok) ==
    /\ lastLong' = LongRecord("get", identifier, Absent, "ok", read_ok,
                              LongGetValue(identifier, read_ok))
    /\ UNCHANGED <<index_in_memory, index, disk>>

\* update(identifier, item)
LongUpdate(identifier, item, read_ok, write) ==
    IF LongGetValue(identifier, read_ok) = Absent
    THEN /\ lastLong' = LongRecord("update", identifier, item, "ok", read_ok, "false")
         /\ UNCHANGED <<index_in_memory, index, disk>>
    ELSE /\ disk' = SaveItem(disk, identifier, item, write)
         /\ index' = IndexPut(index, identifier, item)
         /\ lastLong' = LongRecord("update", identifier, item, write,
                                   read_ok /\ write = "ok", "true")
         /\ UNCHANGED index_in_memory

\* delete(identifier), os.remove succeeding (remove_ok) or raising
LongDelete(identifier, remove_ok) ==
    IF identifier \notin DOMAIN disk
    THEN /\ lastLong' = LongRecord("delete", identifier, Absent, "ok", TRUE, "false")
         /\ UNCHANGED <<index_in_memory, index, disk>>
    ELSE IF remove_ok
         THEN /\ disk' = [x \in DOMAIN disk \ {identifier} |-> disk[x]]
              /\ index' = [x \in DOMAIN index \ {identifier} |-> index[x]]
              /\ lastLong' = LongRecord("delete", identifier, Absent, "ok", TRUE, "true")
              /\ UNCHANGED index_in_memory
         ELSE /\ lastLong' = LongRecord("delete", identifier, Absent, "ok", FALSE, "false")
              /\ UNCHANGED <<index_in_memory, index, disk>>

\* clear(), os.remove raising for the files of stuck
LongClear(stuck) ==
    /\ disk' = [x \in stuck |-> disk[x]]
    /\ index' = IF index_in_memory THEN <<>> ELSE index
    /\ lastLong' = LongRecord("clear", NoId, Absent, "ok", stuck = {}, "none")
    /\ UNCHANGED index_in_memory

NoLong == [op |-> "init", arg |-> NoId, item |-> Absent, write |-> "ok",
           io_ok |-> TRUE, returned |-> "none", raised |-> FALSE]

\* LongTermMemory(storage_path, index_in_memory) on an empty directory
LongInit ==
    /\ index_in_memory \in BOOLEAN
    /\ index = <<>>
    /\ disk = <<>>
    /\ lastLong = NoLong

\* a LongTermMemory nobody uses
LongIdle ==
    /\ index_in_memory = TRUE
    /\ index = <<>>
    /\ disk = <<>>
    /\ lastLong = NoLong

LongNext ==
    \/ \E item \in LongItems, write \in Writes :
          LongAdd(item, write) /\ UNCHANGED <<memVars, planVars, loopVars, hybridVars, collVars>>
    \/ \E id \in LongIds, read_ok \in BOOLEAN :
          LongGet(id, read_ok) /\ UNCHANGED <<memVars, planVars, loopVars, hybridVars, collVars>>
    \/ \E id \in LongIds, item \in LongItems, read_ok \in BOOLEAN, write \in Writes :
          LongUpdate(id, item, read_ok, write)
             /\ UNCHANGED <<memVars, planVars, loopVars, hybridVars, collVars>>
    \/ \E id \in LongIds, remove_ok \in BOOLEAN :
          LongDelete(id, remove_ok) /\ UNCHANGED <<memVars, planVars, loopVars, hybridVars, collVars>>
    \/ \E stuck \in SUBSET DOMAIN disk :
          LongClear(stuck) /\ UNCHANGED <<memVars, planVars, loopVars, hybridVars, collVars>>

-----------------------------------------------------------------------------
(* Specifications, one per component *)

MemStart == MemInit /\ PlanIdle /\ LoopIdle /\ HybridIdle /\ CollInit /\ LongIdle

MemSpec == MemStart /\ [][MemNext]_vars

PlanInit == MemIdle /\ PlanIdle /\ LoopIdle /\ HybridIdle /\ CollInit /\ LongIdle

PlanSpec == PlanInit /\ [][PlanNext]_vars

DriveStart == MemIdle /\ PlanIdle /\ LoopIdle /\ HybridIdle /\ CollInit /\ LongIdle

\* the caller keeps calling
DriveSpec == DriveStart /\ [][DriveNext]_vars /\ WF_vars(DriveNext)

LoopStart == MemIdle /\ PlanIdle /\ LoopInit /\ HybridIdle /\ CollInit /\ LongIdle

\* a running execute takes its next step: the interpreter does not stop
LoopRun == LoopStep /\ UNCHANGED <<memVars, planVars, hybridVars, collVars, longVars>>

LoopSpec == LoopStart /\ [][LoopNext]_vars /\ WF_vars(LoopRun)

HybridStart == MemIdle /\ PlanIdle /\ LoopIdle /\ HybridInit /\ CollInit /\ LongIdle

HybridSpec == HybridStart /\ [][HybridNext]_vars

CollStart == MemIdle /\ PlanIdle /\ LoopIdle /\ HybridIdle /\ CollInit /\ LongIdle

CollSpec == CollStart /\ [][CollNext]_vars

LongStart == MemIdle /\ PlanIdle /\ LoopIdle /\ HybridIdle /\ CollInit /\ LongInit

LongSpec == LongStart /\ [][LongNext]_vars

RaceStart == RaceInit /\ PlanIdle /\ LoopIdle /\ HybridIdle /\ CollInit /\ LongIdle

RaceSpec == RaceStart /\ [][RaceNext]_vars

-----------------------------------------------------------------------------
(* Claims about ReactAgent.execute *)

\* C1: execute with max_iterations = N performs at most N think-decide-act-
\* observe iterations (it never holds more than N thoughts, actions or
\* observations) and a started execute always ends (it returns or an
\* exception leaves it), whatever _should_terminate answers.
C1_TerminatesWithinBudget ==
    /\ [](/\ thoughts <= max_iterations
          /\ actions <= max_iterations
          /\ Len(observations) <= max_iterations
          /\ current_iteration <= max_iterations)
    /\ (pc = "loop" ~> pc \in {"returned", "raised"})

\* C1 witness: an overridden _should_terminate answered False on every
\* iteration and execute returned after exactly max_iterations iterations
C1_Witness ==
    /\ pc = "returned"
    /\ predicate = "custom"
    /\ max_iterations >= 2
    /\ current_iteration = max_iterations
    /\ thoughts = max_iterations
    /\ Len(observations) = max_iterations

\* C6: no exception leaves execute: a fault in thought generation, action
\* decision, action execution or final-answer derivation ends the run in
\* status "error" with an error-shaped result.
C6_NeverRaisesPastExecute ==
    /\ pc # "raised"
    /\ agent_status = "executing" => pc \notin {"returned", "raised"}

\* C12: when an action of the run was a tool call that succeeded with a
\* value, the final answer is made from a tool result and is not the generic
\* "unable to process" fallback.
C12_SuccessfulToolValueInAnswer ==
    (pc = "returned"
        /\ \E i \in DOMAIN observations : ObsStatus(observations[i]) = "success")
    => outcome.answer # UnableAnswer

\* C16: a failed action is recorded as an observation and does not end the
\* loop: executing an action always appends its observation and goes on to
\* the termination test; after an error observation, when the written
\* termination predicate does not hold (and does not raise), the iteration
\* counter advances and, the budget allowing, the next iteration starts.
C16_FailedActionKeepsLooping ==
    [][/\ pc = "act" =>
            /\ pc' = "check"
            /\ lastAction'.observation \in ObsKinds
            /\ observations' = Append(observations, lastAction'.observation)
       /\ (/\ pc = "check"
           /\ observations[Len(observations)] = "err"
           /\ predicate = "default"
           /\ ~DefaultShouldTerminate
           /\ pc' # "raised") =>
            /\ pc' = "loop"
            /\ current_iteration' = current_iteration + 1
       /\ (pc = "loop" /\ current_iteration < max_iterations) => pc' = "thought"]_vars

\* C16 witness: the first action failed and a second iteration ran
C16_Witness ==
    /\ Len(observations) >= 2
    /\ observations[1] = "err"
    /\ predicate = "default"
    /\ current_iteration >= 1

\* C18: executing an action whose name is not registered makes one load
\* attempt; if the load fails the observation is an error and no tool is
\* run or registered; if it succeeds the tool is registered under that name
\* and run exactly once. Nothing is raised.
C18_LazyLoadOnce ==
    [][(pc = "act" /\ action_name \notin tools) =>
          /\ pc' = "check"
          /\ lastAction'.loads = 1
          /\ action_name \in Loadable =>
                /\ tools' = tools \cup {action_name}
                /\ lastAction'.executes = 1
          /\ action_name \notin Loadable =>
                /\ tools' = tools
                /\ lastAction'.executes = 0
                /\ lastAction'.observation = "err"]_vars

\* C18 witness: an unregistered name was loaded, registered and run once
C18_Witness ==
    /\ pc = "check"
    /\ lastAction.loads = 1
    /\ lastAction.executes = 1
    /\ lastAction.name \in tools

\* C29: an agent's status moves only along initialized -> executing ->
\* completed | error, and completed and error are absorbing: no later
\* operation, another execute included, changes them.
C29_StatusLifecycle ==
    [][\/ agent_status' = agent_status
       \/ agent_status = "initialized" /\ agent_status' = "executing"
       \/ agent_status = "executing" /\ agent_status' \in {"completed", "error"}]_vars

\* the observations of the run that carry a result the final answer can be
\* made from, in the order they were made
Usable(obs) == SelectSeq(obs, LAMBDA o : o \in {"v1", "v2"})

\* C30: the final answer is derived from the most recent informative
\* observation: when several observations carry usable results, the answer
\* reflects the latest of them.
C30_AnswerFromLatestObservation ==
    (pc = "returned" /\ Usable(observations) # <<>>)
    => outcome.answer = Usable(observations)[Len(Usable(observations))]

\* C32: with the termination predicate as written, a run with
\* max_iterations = N >= 1 that returns has stopped at iteration index N - 1
\* after one action per iteration: the context holds exactly N thoughts,
\* N actions and N observations.
C32_DefaultRunsExactlyBudget ==
    (pc = "returned" /\ predicate = "default" /\ max_iterations >= 1)
    => /\ current_iteration = max_iterations - 1
       /\ thoughts = max_iterations
       /\ actions = max_iterations
       /\ Len(observations) = max_iterations

\* C32 witness: a run with the written predicate and a budget of at least
\* two iterations has returned
C32_Witness ==
    /\ pc = "returned"
    /\ predicate = "default"
    /\ max_iterations >= 2
    /\ current_iteration = max_iterations - 1
    /\ Len(observations) = max_iterations

\* C37: the "iterations" field of the result execute returns equals the
\* number of iterations performed in the run, i.e. the number of
\* observations appended to the context.
C37_IterationsFieldCountsIterations ==
    pc = "returned" => outcome.iterations = Len(observations)

-----------------------------------------------------------------------------
(* Claims about ToolCollection *)

\* C17: invoking a tool through the registry always returns a result with
\* status success or error, and when the tool is not found, rejects its
\* input, raises or itself returns a failure status, the status is error.
C17_FailedInvocationIsError ==
    /\ lastInvoke.status \in {"success", "error"}
    /\ (\/ ~lastInvoke.found
        \/ lastInvoke.validation # "valid"
        \/ lastInvoke.ret \in {"raise", "status_error"})
       => lastInvoke.status = "error"

-----------------------------------------------------------------------------
(* Claims about HybridAgent.execute *)

\* the last execute ran one loop, the agent's own, and left the registry alone
SingleLoopOnly ==
    /\ lastExecute.own_loops = 1
    /\ lastExecute.agent_runs = <<>>
    /\ ~lastExecute.registry_consulted

RoleRank(role) ==
    CASE role = "researcher" -> 1
      [] role = "planner" -> 2
      [] role = "coder" -> 3
      [] OTHER -> 4

\* C11: the aggregated answer of a multi-agent execute (one subtask per
\* registered role) lists the sub-answers in the fixed role order researcher,
\* planner, coder, critic, whatever the order in which the roles were
\* registered.
C11_AnswerInFixedRoleOrder ==
    lastExecute.subtasks = specialized_agents =>
        \A i, j \in DOMAIN lastExecute.answer :
            i < j => RoleRank(lastExecute.answer[i]) <= RoleRank(lastExecute.answer[j])

\* C13: with no specialized agent registered, execute runs the agent's own
\* loop and nothing else, for every task and every mode, also when the score
\* reaches the threshold.
C13_EmptyRegistrySingleLoop ==
    (hybrid_status = "completed" /\ specialized_agents = <<>>)
    => /\ lastExecute.own_loops = 1
       /\ lastExecute.agent_runs = <<>>
       /\ lastExecute.subtasks = <<>>

\* C13 witness: nothing is registered and a task scoring at or above the
\* threshold was executed in mode "multi" by the agent's own loop
C13_Witness ==
    /\ hybrid_status = "completed"
    /\ specialized_agents = <<>>
    /\ lastExecute.requested = "multi"
    /\ Complexity(lastExecute.task) >= complexity_threshold
    /\ lastExecute.own_loops = 1

\* C19: in a multi-agent execute a subtask whose role has no registered
\* agent gets an error entry under its id, every other subtask is executed by
\* the agent of its role, and the final answer aggregates the answers of all
\* of those, in subtask order.
C19_MissingRoleIsErrorEntry ==
    [][(/\ specialized_agents' = specialized_agents
        /\ hybrid_status' = "completed"
        /\ lastExecute'.own_loops = 0)
       => LET e == lastExecute'
              registered == SeqToSet(specialized_agents)
              present == SelectSeq(e.subtasks, LAMBDA role : role \in registered)
          IN /\ \A i \in DOMAIN e.subtasks :
                    e.subtask_results[i] =
                        IF e.subtasks[i] \in registered THEN "answer" ELSE "error"
             /\ e.agent_runs = present
             /\ e.answer = present]_vars

\* C19 witness: the first subtask's role had no agent and got an error entry,
\* the second subtask was executed and its answer is the final answer
C19_Witness ==
    /\ hybrid_status = "completed"
    /\ Len(lastExecute.subtasks) = 2
    /\ lastExecute.subtask_results = <<"error", "answer">>
    /\ lastExecute.agent_runs = <<lastExecute.subtasks[2]>>
    /\ lastExecute.answer = <<lastExecute.subtasks[2]>>

\* C22: in a multi-agent execute the written decomposition yields exactly one
\* subtask per registered role, with pairwise distinct ids (the positions
\* 1..n); each subtask is executed exactly once, by the agent of its role,
\* and subtask_results holds exactly one entry per subtask id.
C22_OneSubtaskPerRole ==
    [][(/\ specialized_agents' = specialized_agents
        /\ hybrid_status' = "completed"
        /\ lastExecute'.own_loops = 0
        /\ lastExecute'.subtasks = DecomposeTask(specialized_agents))
          => LET e == lastExecute'
                 registered == SeqToSet(specialized_agents)
             IN /\ Len(e.subtasks) = Cardinality(registered)
                /\ \A role \in registered :
                      Cardinality({i \in DOMAIN e.subtasks : e.subtasks[i] = role}) = 1
                /\ e.agent_runs = e.subtasks
                /\ DOMAIN e.subtask_results = DOMAIN e.subtasks
                /\ \A i \in DOMAIN e.subtasks : e.subtask_results[i] = "answer"]_vars

\* C22 witness: two roles are registered and a multi-agent execute ran one
\* subtask for each, in registration order
C22_Witness ==
    /\ hybrid_status = "completed"
    /\ Len(specialized_agents) >= 2
    /\ lastExecute.own_loops = 0
    /\ lastExecute.subtasks = specialized_agents
    /\ lastExecute.agent_runs = specialized_agents
    /\ Len(lastExecute.subtask_results) = Len(specialized_agents)

-----------------------------------------------------------------------------
(* Claims about TaskPlanner *)

\* C4: a step returned by get_next_step, at the cursor or found by the
\* forward scan, has every id of its dependency list among the ids of the
\* plan's completed_steps.
C4_NextStepDepsCompleted ==
    LET r == GetNextStep(plan)
    IN r # NoStep => r.deps \subseteq CompletedIds(plan)

\* C4 witness: the step at the cursor has an uncompleted dependency and the
\* forward scan returns a step that has dependencies, all of them completed
C4_Witness ==
    /\ plan.current_step_index < Len(plan.steps)
    /\ ~(plan.steps[plan.current_step_index + 1].deps \subseteq CompletedIds(plan))
    /\ GetNextStep(plan) # NoStep
    /\ GetNextStep(plan).deps # {}

\* C8: marking the same step id complete a second time, with the same result,
\* on the plan the first call returned leaves current_step_index unchanged.
C8_SecondMarkKeepsCursor ==
    \A id \in StepIds, r \in Results :
        LET first == MarkStepComplete(plan, id, r)
            second == MarkStepComplete(first, id, r)
        IN second.current_step_index = first.current_step_index

\* C8 witness: the step at the cursor was marked complete twice in a row; the
\* first call advanced the cursor and the second did not
C8_Witness ==
    /\ planOp.op = "mark_step_complete"
    /\ Len(plan.steps) >= 2
    /\ plan.steps[1].id = planOp.arg
    /\ Len(plan.completed_steps) = 2
    /\ plan.completed_steps[1].id = planOp.arg
    /\ plan.completed_steps[2].id = planOp.arg
    /\ plan.current_step_index = 1

\* the 1-based positions at or after the cursor whose step has all its
\* dependencies completed
Executable(p) ==
    {j \in DOMAIN p.steps :
        /\ j > p.current_step_index
        /\ p.steps[j].deps \subseteq CompletedIds(p)}

\* C9: get_next_step returns the step at the cursor when its dependencies are
\* all completed, otherwise the first step at or after the cursor whose
\* dependencies are all completed, and none when the cursor is past the last
\* step or no such step exists.
C9_NextStepIsFirstExecutable ==
    LET r == GetNextStep(plan)
        c == plan.current_step_index
    IN IF c >= Len(plan.steps) \/ Executable(plan) = {}
       THEN r = NoStep
       ELSE r = plan.steps[CHOOSE j \in Executable(plan) :
                               \A k \in Executable(plan) : j <= k]

\* C9 witness: steps [s1, s2 (deps s1), s3 (deps s1)], s1 marked complete,
\* get_next_step returns s2
C9_Witness ==
    /\ Len(plan.steps) = 3
    /\ plan.steps[1].deps = {} /\ plan.steps[2].deps = {1} /\ plan.steps[3].deps = {1}
    /\ CompletedIds(plan) = {1}
    /\ plan.current_step_index = 1
    /\ GetNextStep(plan) = plan.steps[2]

\* C10: after a successful replan the steps are the completed steps followed
\* by the newly generated steps, current_step_index equals the number of
\* completed steps and the feedback is recorded in the plan.
C10_ReplanMergesAtBoundary ==
    planOp.op = "replan" =>
        /\ plan.steps = plan.completed_steps \o planOp.new_steps
        /\ plan.current_step_index = Len(plan.completed_steps)
        /\ plan.feedback = planOp.feedback

\* C14: a plan's status follows created -> updated* -> completed; error is
\* entered only when create_plan or replan fails; a successful replan of a
\* plan in status error gives status updated and keeps its completed steps.
C14_StatusTransitions ==
    [][LET from == plan.status
           to == plan'.status
           failed == planOp'.op \in {"create_plan_error", "replan_error"}
       IN /\ \/ to = from
             \/ from = "none" /\ to = "created"
             \/ from \in {"created", "updated"} /\ to \in {"updated", "completed"}
             \/ to = "error" /\ failed
             \/ from = "error" /\ to = "updated"
          /\ (from = "error" /\ planOp'.op = "replan") =>
                /\ to = "updated"
                /\ plan'.completed_steps = plan.completed_steps
                /\ SubSeq(plan'.steps, 1, Len(plan.completed_steps))
                      = plan.completed_steps]_vars

\* C23: the cursor of a plan never moves back: no mark_step_complete or
\* replan call returns a plan whose current_step_index is smaller than it was
\* before the call.
C23_CursorNeverMovesBack ==
    [][(plan_calls' # plan_calls
        /\ planOp'.op \in {"mark_step_complete", "replan", "replan_error"})
       => plan'.current_step_index >= plan.current_step_index]_vars

\* C24: get_next_step never returns a step that is already completed: when
\* the caller alternates get_next_step and mark_step_complete of the step
\* returned, the id of a returned step is not among the ids of
\* completed_steps.
C24_NextStepNotCompleted ==
    (planOp.op = "get_next_step" /\ planOp.step # NoStep)
    => planOp.step.id \notin CompletedIds(plan)

\* the steps can be ordered so that each comes after its dependencies
RECURSIVE Resolvable(_, _)
Resolvable(steps, done) ==
    LET ready == {i \in DOMAIN steps \ done : steps[i].deps \subseteq done}
    IN IF done = DOMAIN steps THEN TRUE
       ELSE IF ready = {} THEN FALSE
       ELSE Resolvable(steps, done \cup ready)

\* C25: for a plan with unique step ids and acyclic dependencies over its own
\* steps, in any order in the list, a caller that keeps calling get_next_step
\* and marks the returned step complete gets the plan to status completed,
\* and get_next_step then returns none.
\* get_next_step reads only the steps, the cursor and the completed ids, so a
\* mark that changes neither the cursor nor the completed ids is followed by
\* the same step for ever: the caller loops unless every mark makes progress.
C25_DrivenPlanCompletes ==
    /\ [][(/\ plan_calls' # plan_calls
            /\ planOp'.op = "mark_step_complete"
            /\ Resolvable(plan.steps, {}))
           => \/ plan'.current_step_index > plan.current_step_index
              \/ CompletedIds(plan') # CompletedIds(plan)]_vars
    /\ (plan.status = "created" /\ Resolvable(plan.steps, {}))
          ~> (plan.status = "completed" /\ GetNextStep(plan) = NoStep)

\* C33: a plan (with at least one step) has status completed exactly when
\* every step of its steps list has been marked complete, i.e. the id of
\* every step is among the ids of completed_steps.
C33_CompletedIffAllStepsDone ==
    (plan.status # "none" /\ plan.steps # <<>>)
    => (plan.status = "completed"
          <=> \A i \in DOMAIN plan.steps : plan.steps[i].id \in CompletedIds(plan))

C38_StepIdsUnique ==
    planOp.op \in {"create_plan", "replan"} =>
        /\ \A i \in DOMAIN plan.steps : plan.steps[i].id # NoId
        /\ \A i, j \in DOMAIN plan.steps :
              plan.steps[i].id = plan.steps[j].id => i = j
        /\ LET next_step == GetNextStep(plan)
           IN next_step # NoStep =>
                 plan.steps[StepIndex(plan.steps, next_step.id, 0) + 1] = next_step

-----------------------------------------------------------------------------
(* Claims about ShortTermMemory *)

LastOf(s, n) == {s[i] : i \in {j \in DOMAIN s : j > Len(s) - n}}

\* C2: after more than capacity consecutive add calls (no other call in
\* between, nothing expired), the store holds exactly capacity items and they
\* are the capacity most recently added ones.
C2_KeepsMostRecentlyAdded ==
    Len(addRun) > capacity =>
        /\ Len(items) = capacity
        /\ Keys(items) = LastOf(addRun, capacity)

\* C3: when an add overflows capacity, the evicted item has the oldest
\* last-access time: no item still in the store was accessed (added, read by
\* get or search, updated) strictly earlier than the evicted one.
C3_EvictsOldestAccess ==
    [][(calls' # calls /\ lastOp'.op = "add" /\ lastOp'.evicted \in Keys(items))
        => \A o \in Keys(items') \cap Keys(items) :
              access_times[o] >= access_times[lastOp'.evicted]]_vars

\* the place of a stored identifier in self.items (dict order is insertion
\* order)
PlaceOf(its, id) == CHOOSE j \in DOMAIN its : its[j][1] = id

\* C26: when an add overflows capacity, exactly one item is evicted: the one
\* with the smallest last-access time among the items then stored (the new
\* one included), and among several with that smallest time the one inserted
\* earliest.
C26_EvictsLeastRecentlyUsedEarliest ==
    [][(calls' # calls /\ lastOp'.op = "add" /\ lastOp'.evicted # NoId)
        => LET new == lastOp'.arg
               evicted == lastOp'.evicted
               kept == Keys(items) \ lastOp'.pruned
               stored == kept \cup {new}
               accessed(x) == IF x = new THEN now' ELSE access_times[x]
               before(x, y) == x # new /\ (y = new \/ PlaceOf(items, x) < PlaceOf(items, y))
           IN /\ Keys(items') = stored \ {evicted}
              /\ Len(items') = Cardinality(stored) - 1
              /\ \A o \in stored : accessed(o) >= accessed(evicted)
              /\ \A o \in stored \ {evicted} :
                    accessed(o) = accessed(evicted) => before(evicted, o)]_vars

\* C27: in every reachable state each stored item has creation time <=
\* last-access time <= current time, and each identifier of the item index
\* has an entry in lru_queue.
C27_TimesOrderedAndQueued ==
    \A id \in Keys(items) :
        /\ id \in DOMAIN creation_times /\ id \in DOMAIN access_times
        /\ creation_times[id] <= access_times[id]
        /\ access_times[id] <= now
        /\ \E e \in lru_queue : e[2] = id

\* C27 witness: an item was read after it was created and before now, and
\* lru_queue still holds the entry of a deleted item
C27_Witness ==
    /\ \E id \in Keys(items) :
          creation_times[id] < access_times[id] /\ access_times[id] < now
    /\ \E e \in lru_queue : e[2] \notin Keys(items)

\* C28: after every ShortTermMemory operation the number of stored items is
\* at most the capacity, and get_stats reports current_size equal to the
\* number of stored items and utilization equal to current_size / capacity.
C28_SizeWithinCapacity ==
    LET stats == GetStats(Store)
    IN /\ Len(items) <= capacity
       /\ Cardinality(Keys(items)) = Len(items)
       /\ stats.current_size = Cardinality(Keys(items))
       /\ stats.capacity = capacity
       /\ stats.utilization.num * capacity = stats.current_size * stats.utilization.den

\* C28 witness: an add has evicted an item and the store is full, with more
\* than one item
C28_Witness ==
    /\ lastOp.op = "add"
    /\ lastOp.evicted # NoId
    /\ capacity >= 2
    /\ Len(items) = capacity
    /\ GetStats(Store).current_size = capacity

\* C7: after a get, search or add call no stored item is older than the TTL:
\* an expired item is not counted in the store, get does not find it and
\* search does not return it.
C7_ExpiredAbsentAfterCall ==
    lastOp.op \in {"get", "search", "add"} =>
        /\ \A id \in Keys(items) : now - creation_times[id] <= ttl
        /\ (lastOp.op = "get" /\ lastOp.found) => lastOp.arg \in Keys(items)
        /\ \A i \in DOMAIN lastOp.hits : lastOp.hits[i] \in Keys(items)
        /\ lastOp.pruned \cap Keys(items) = {}

\* C7 witness: a get of an identifier whose item had expired returned absent
C7_Witness ==
    /\ lastOp.op = "get"
    /\ lastOp.arg \in lastOp.pruned
    /\ ~lastOp.found
    /\ lastOp.arg \notin Keys(items)

\* C15: every add, get, search, update and delete call first removes the
\* items older than the TTL: after the call no such item is left in the
\* store (so that, e.g., delete of an expired item finds nothing).
C15_EveryCallPrunes ==
    lastOp.op \in {"add", "get", "search", "update", "delete"} =>
        \A id \in Keys(items) : now - creation_times[id] <= ttl

\* the item stored under an identifier
ItemOf(id) == LET i == CHOOSE j \in DOMAIN items : items[j][1] = id IN items[i][2]

\* C20: search(query, limit) returns at most limit entries, every one of
\* them matches the query, and they are ordered newest first.
C20_SearchLimitMatchOrder ==
    lastOp.op = "search" =>
        /\ Len(lastOp.hits) <= lastOp.limit
        /\ \A i \in DOMAIN lastOp.hits : Matches(lastOp.query, ItemOf(lastOp.hits[i]))
        /\ \A i, j \in DOMAIN lastOp.hits :
              i < j => creation_times[lastOp.hits[i]] >= creation_times[lastOp.hits[j]]

\* C34: expiry is measured from the creation time only: get, search and
\* update set the last-access time of the items they touch and never change a
\* creation time, and every call that prunes removes exactly the items whose
\* age exceeds the TTL, however recently they were read or updated.
C34_ExpiryFromCreationOnly ==
    [][(calls' # calls /\ lastOp'.op \in {"add", "get", "search", "update"}) =>
          /\ \A id \in Keys(items') \cap Keys(items) :
                creation_times'[id] = creation_times[id]
          /\ \A id \in Keys(items) :
                now' - creation_times[id] > ttl => id \notin Keys(items')
          /\ lastOp'.pruned = {id \in Keys(items) : now' - creation_times[id] > ttl}
          /\ (lastOp'.op \in {"get", "update"} /\ lastOp'.found) =>
                access_times'[lastOp'.arg] = now'
          /\ \A i \in DOMAIN lastOp'.hits : access_times'[lastOp'.hits[i]] = now']_vars

\* C34 witness: a get, search or update has pruned an item that had been
\* accessed no more than ttl before the call
C34_Witness ==
    /\ lastOp.op \in {"get", "search", "update"}
    /\ lastOp.fresh # {}
    /\ lastOp.fresh \cap Keys(items) = {}

\* the stored identifiers whose item matches the query
Matching(query) == {id \in Keys(items) : Matches(query, ItemOf(id))}

\* C36: when more than limit stored items match the query, search returns
\* the limit most recently created ones: no returned entry is older than a
\* matching item that was left out.
C36_SearchReturnsNewest ==
    (/\ lastOp.op = "search"
     /\ lastOp.limit >= 1
     /\ Cardinality(Matching(lastOp.query)) > lastOp.limit) =>
        /\ Len(lastOp.hits) = lastOp.limit
        /\ \A i \in DOMAIN lastOp.hits :
              \A m \in Matching(lastOp.query) \ SeqRange(lastOp.hits) :
                 creation_times[lastOp.hits[i]] >= creation_times[m]

\* C39: the length of lru_queue never exceeds capacity + 1: the entries left
\* behind by delete and by expiry do not accumulate.
C39_QueueBounded ==
    Cardinality(lru_queue) <= capacity + 1

\* C31: when two callers use the same ShortTermMemory concurrently (a get
\* or update racing with a delete, eviction or pruning of the same
\* identifier, or two adds at capacity), no call raises, and once both calls
\* have returned the item index, the access-time map and the creation-time
\* map have the same keys and the store holds at most capacity items.
C31_ConcurrentCallsSafe ==
    (\/ \E c \in Callers : callers[c].op \in {"get", "update"}
     \/ \A c \in Callers : callers[c].op = "add") =>
        /\ \A c \in Callers : callers[c].pc # "raised"
        /\ (\A c \in Callers : callers[c].pc = "done") =>
              /\ Keys(items) = DOMAIN access_times
              /\ Keys(items) = DOMAIN creation_times
              /\ Len(items) <= capacity

-----------------------------------------------------------------------------
(* Claims about LongTermMemory *)

\* C21: when writing or removing an item file fails, the operation does not
\* raise and returns its failure indicator (update and delete return false,
\* get returns absent): success is never reported for a write that did not
\* reach the disk.
C21_FailedWriteIsNotSuccess ==
    /\ ~lastLong.raised
    /\ (lastLong.op = "update" /\ lastLong.returned = "true")
          => (lastLong.arg \in DOMAIN disk /\ disk[lastLong.arg] = lastLong.item)
    /\ (lastLong.op = "update" /\ lastLong.write # "ok") => lastLong.returned = "false"
    /\ (lastLong.op = "delete" /\ ~lastLong.io_ok) => lastLong.returned = "false"
    /\ (lastLong.op = "delete" /\ lastLong.returned = "true")
          => lastLong.arg \notin DOMAIN disk
    /\ (lastLong.op = "get" /\ ~lastLong.io_ok
            /\ ~(index_in_memory /\ lastLong.arg \in DOMAIN index))
          => lastLong.returned = Absent

=============================================================================
